---- MODULE Spec2Model ----
(***************************************************************************)
(* State-machine model of the dispatch-and-orchestration engine:           *)
(*   src/src/dispatcher.py  TaskDispatcher (worker pool, submit/poll/fetch) *)
(*   src/src/service.py     BatchProcessor (run, process_folder)            *)
(*   src/modules/comfyui/redis_client.py  ComfyUIRedisClient (StatusStore)  *)
(*                                                                         *)
(* Scheduling is asyncio's: one thread, a coroutine runs until its next    *)
(* await.  Each action below is the code between two suspension points of  *)
(* one coroutine.  Awaits on the StatusStore are folded into the step that *)
(* issues them (every key is touched by one job only).  The 24h TTL of the *)
(* StatusStore is far beyond the time scale of a run and is not modelled.  *)
(* Worker-issued prompt ids are taken to be unique.                        *)
(*                                                                         *)
(* Two programs use the dispatcher (variable entry):                        *)
(*   "process_task": callers of the TaskDispatcher API running concurrently *)
(*                   (examples/batch_process.py gathers process_task calls) *)
(*   "run":          BatchProcessor.run (examples/run_service.py)           *)
(* Two parts of them are also run alone, on all their inputs:              *)
(*   "get_result":   TaskDispatcher.get_result called by a handle's holder  *)
(*   "plan":         the generation plan process_folder makes for a folder  *)
(*   "queue":        the task queue process_folder builds from the scan     *)
(* BatchProcessor.process_batch is a further entry point of the engine:    *)
(*   "process_batch": one call of process_batch on a list of images         *)
(***************************************************************************)
EXTENDS Integers, Sequences, FiniteSets, TLC

\* ---------------------------------------------------------------- bounds
NumServers == 2      \* len(config.servers)
MaxClients == 2      \* concurrent API callers in the "process_task" program
MaxPlan    == 3      \* largest len(task_queue) in process_folder
MaxBatch   == 2      \* largest config.batch_size
MaxRetries == 2      \* get_result(max_retries=...), 60 by default
MaxRepeat  == 1      \* further direct get_result calls for one job handle
MaxImages  == 1      \* most image descriptors in one history "outputs"
MaxGroup   == 3      \* most main images in one style folder
MaxTarget  == 7      \* largest generations_per_style
MaxMinPer  == 2      \* largest min_generations_per_input
MaxMaxPer  == 3      \* largest max_generations_per_input
MaxScan    == 2      \* most scanned images of one role
MaxFolder  == 1      \* most images in a randomly chosen folder
MaxQueue   == 3      \* largest generations_per_style when the queue is built
MaxQueueMin == 1     \* largest min_generations_per_input when the queue is built
MaxBatchImages == 2  \* largest len(batch) given to process_batch
MaxManaged == 2      \* server names known to callers of the ServerManager
MaxRequests == 2     \* POST /batch/process requests

\* ------------------------------------------------------ program constants
MaxChecks  == 3      \* _check_server_status(max_retries=3)

Servers == 1..NumServers
NumJobs == IF MaxClients > MaxPlan THEN MaxClients ELSE MaxPlan
Jobs    == 1..NumJobs
TaskOwner == 0                      \* the single-flight _initialization_task
Owners  == {TaskOwner} \cup Jobs    \* who runs a copy of _initialize

Min(a, b) == IF a < b THEN a ELSE b

VARIABLES
  entry,                \* which program runs: "process_task" | "run" | "get_result" | "plan"
  \* ---- TaskDispatcher fields (dispatcher.py:139-146)
  initialized,          \* self._initialized
  available_servers,    \* self.available_servers
  server_cycle,         \* list(self.available_servers) under cycle(); <<>> = None
  cursor,               \* position of cycle()'s iterator in server_cycle (1-based)
  initialization_task,  \* self._initialization_task: "None" or the task's state
  initialization_lock,  \* holder of self._initialization_lock, 0 = free
  \* ---- runs of _initialize / _check_server_status
  chk,                  \* chk[o][s]: health check of server s in the run owned by o
  checkedBy,            \* owners whose run of _initialize issued health checks
  handed,               \* what get_next_server returned, in order
  since,                \* Len(handed) when server_cycle was last assigned
  \* ---- one coroutine per job slot: its locals and suspension point
  job,
  \* ---- StatusStore and the requests sent to workers
  store,                \* store[p]: the record under comfyui:task:{p}
  requests,             \* requests issued to workers: [job, kind, srv]
  \* ---- BatchProcessor.run / process_folder
  mpc,                  \* suspension point of the main coroutine
  batch_size,           \* self.config.batch_size
  total_tasks,          \* len(task_queue)
  avail_list,           \* available_servers = list(self.dispatcher.available_servers)
  task_idx,             \* number of task_queue entries admitted so far
  active_tasks,         \* active_tasks
  fs,                   \* the tasks asyncio.wait / as_completed was called with
  all_results,          \* all_results
  processed_count,      \* processed_count
  \* ---- a caller of get_result alone (program "get_result")
  hist,                 \* what the call under way got from the worker, and its sleeps
  start,                \* the stored status the call under way found
  \* ---- the generation plan of one style folder (program "plan")
  image_count,            \* image_count = len(style_images)
  generations_per_style,  \* generations_per_style
  min_per_image,          \* min_per_image
  max_per_image,          \* max_per_image
  generation_times,       \* generation_times; <<>> before it is computed
  \* ---- the task queue process_folder builds (program "queue")
  input_mapping,          \* self.config.input_mapping: role -> its configuration
  input_groups,           \* number of scanned images of each role
  draws,                  \* per repeat and role, what random.choice / the folder gave
  task_queue,             \* task_queue
  returned,               \* how process_folder went on: "None" | "empty" | "raised" | "queued"
  \* ---- the API service: ServerManager and the route batch_process
  servers,                \* self._servers: name -> its ServerConfig, NoServer = absent
  checking,               \* the server whose GET /health is under way, 0 = none
  called,                 \* the last call of a ServerManager method and what it returned
  batch_requests          \* the POST /batch/process requests: where each one is

pollVars  == <<hist, start>>
quotaVars == <<image_count, generations_per_style, min_per_image, max_per_image>>
queueVars == <<input_mapping, input_groups, draws, task_queue, returned>>
apiVars   == <<servers, checking, called, batch_requests>>
progVars  == <<entry, pollVars, quotaVars, generation_times, queueVars, apiVars>>
poolVars  == <<initialized, available_servers, server_cycle, cursor>>
taskVars  == <<initialization_task, initialization_lock>>
checkVars == <<chk, checkedBy>>
storeVars == <<store, requests>>
planVars  == <<batch_size, total_tasks, avail_list>>
loopVars  == <<task_idx, active_tasks, fs, all_results, processed_count>>
mainVars  == <<mpc, planVars, loopVars>>
handVars  == <<handed, since>>
vars == <<progVars, poolVars, taskVars, checkVars, handVars, job, storeVars, mainVars>>

\* ------------------------------------------------------------ StatusStore
NoData   == [key |-> "None", val |-> <<>>]
NoRecord == [status |-> "None", data |-> NoData]

\* keys of the JSON object set_task_status writes
TaskDataKeys == {"status", "updated_at", "data"}

Terminal == {"COMPLETED", "FAILED", "TIMEOUT"}

\* str(e) of what a request to a worker can raise
Exceptions == {"Exception", "ConnectError", "ReadTimeout"}

\* ------------------------------------------------------- health checks
Idle    == [st |-> "idle", n |-> 0]
IdleRun == [s \in Servers |-> Idle]
NewRun  == [s \in Servers |-> [st |-> "get", n |-> 1]]

Running(o)  == \E s \in Servers : chk[o][s].st # "idle"
Gathered(o) == \A s \in Servers : chk[o][s].st \in {"true", "false"}
Healthy(o)  == {s \in Servers : chk[o][s].st = "true"}

\* all orders list(set) can give
Perms(S) == {q \in [1..Cardinality(S) -> S] :
               \A a, b \in 1..Cardinality(S) : a # b => q[a] # q[b]}

\* op: what the slot executes; pc: its suspension point; srv, pid, attempt:
\* the locals server, prompt_id, attempt; imgs: image descriptors of the
\* history being fetched; status: what the call returned; error: the
\* exception that ended it; result: the list process_task or
\* _process_single_image returned; calls: get_result calls made for the
\* handle; resp: what the worker answered to the POST; out: the number of
\* blobs in the OutputSet get_result returned (0 for None); posts: the
\* number of POST /prompt requests sent for the slot
NewJob == [op |-> "none", pc |-> "none", srv |-> 0, pid |-> 0, attempt |-> 0,
           imgs |-> 0, status |-> "None", error |-> "None", result |-> <<>>,
           calls |-> 0, resp |-> "None", out |-> 0, posts |-> 0]

\* the fields of TaskDispatcher and the locals of the coroutines before
\* anything ran
Fresh ==
  /\ initialized = FALSE
  /\ available_servers = {}
  /\ server_cycle = <<>>
  /\ cursor = 1
  /\ initialization_task = "None"
  /\ initialization_lock = 0
  /\ chk = [o \in Owners |-> IdleRun]
  /\ checkedBy = {}
  /\ handed = <<>>
  /\ since = 0
  /\ requests = {}
  /\ total_tasks = 0
  /\ avail_list = <<>>
  /\ task_idx = 0
  /\ active_tasks = {}
  /\ fs = {}
  /\ all_results = <<>>
  /\ processed_count = 0

\* nothing of the program "get_result" is in use
NoPoll == hist = <<>> /\ start = "None"

\* nothing of the program "plan" is in use
NoPlan ==
  /\ image_count = 0
  /\ generations_per_style = 0
  /\ min_per_image = 0
  /\ max_per_image = 0
  /\ generation_times = <<>>

\* nothing of the program "queue" is in use
NoQueue ==
  /\ input_mapping = <<>>
  /\ input_groups = <<>>
  /\ draws = <<>>
  /\ task_queue = <<>>
  /\ returned = "None"

\* ---- the API service (api/server_manager.py, api/routes/batch.py)
Names    == 1..MaxManaged      \* the server names a caller may give
Requests == 1..MaxRequests     \* the requests, each with its own uuid4 task id

\* ServerStatus as used by the ServerManager and the routes
Statuses == {"ONLINE", "BUSY", "ERROR", "OFFLINE"}

\* self._servers.get(name) of a name that was not registered
NoServer == [enabled |-> FALSE, status |-> "None", current_task_id |-> 0]

\* no ServerManager method was called yet; seq alternates from call to call
NoCall == [op |-> "None", name |-> 0, task |-> 0, ret |-> FALSE, seq |-> 0]

\* a request that did not arrive yet
NoRequest == [pc |-> "none", srv |-> 0, assigned |-> FALSE, status |-> "None"]

\* the API service before any server is registered and any request came
ApiFresh ==
  /\ servers = [s \in Names |-> NoServer]
  /\ checking = 0
  /\ called = NoCall
  /\ batch_requests = [r \in Requests |-> NoRequest]

Init ==
  /\ entry \in {"process_task", "run"}
  /\ NoPoll
  /\ ApiFresh
  /\ NoPlan
  /\ NoQueue
  /\ initialized = FALSE
  /\ available_servers = {}
  /\ server_cycle = <<>>
  /\ cursor = 1
  /\ initialization_task = "None"
  /\ initialization_lock = 0
  /\ chk = [o \in Owners |-> IdleRun]
  /\ checkedBy = {}
  /\ handed = <<>>
  /\ since = 0
  /\ job = [i \in Jobs |-> NewJob]
  /\ store = [i \in Jobs |-> NoRecord]
  /\ requests = {}
  /\ mpc = IF entry = "run" THEN "run" ELSE "none"
  /\ batch_size \in (IF entry = "run" THEN 1..MaxBatch ELSE {1})
  /\ total_tasks = 0
  /\ avail_list = <<>>
  /\ task_idx = 0
  /\ active_tasks = {}
  /\ fs = {}
  /\ all_results = <<>>
  /\ processed_count = 0

\* ------------------------------------------------ _check_server_status
\* One pass of the retry loop of _check_server_status that got outcome r from
\* GET /system_stats, attempt c.n of MaxChecks.  HTTP 200 returns True.  An
\* exception before the last attempt sleeps 1s and tries again.  Everything
\* else (a non-200 answer, an exception on the last attempt) reaches the
\* "return False" at the end of the loop body.
check_server_status(c, r) ==
  IF r = "200" THEN [st |-> "true", n |-> 0]
  ELSE IF r = "exc" /\ c.n < MaxChecks THEN [st |-> "get", n |-> c.n + 1]
  ELSE [st |-> "false", n |-> c.n]

CheckResponse(o, s) ==
  \E r \in {"200", "non200", "exc"} :
    /\ chk[o][s].st = "get"
    /\ chk' = [chk EXCEPT ![o][s] = check_server_status(@, r)]
    /\ UNCHANGED <<progVars, poolVars, taskVars, checkedBy, handVars, job, storeVars,
                   mainVars>>

\* ---------------------------------------------------------- _initialize
\* The set self.available_servers after the results of run o were processed
AddHealthy(o) == available_servers \cup Healthy(o)

\* _initialize after gather, servers found: the cycle is created over
\* list(self.available_servers), in the order q, and _initialized is set
InitializeOk(o, q) ==
  /\ AddHealthy(o) # {}
  /\ q \in Perms(AddHealthy(o))
  /\ available_servers' = AddHealthy(o)
  /\ server_cycle' = q
  /\ since' = Len(handed)
  /\ initialized' = TRUE

\* _initialize after gather, no server: RuntimeError("No available servers")
InitializeRaise(o) ==
  /\ AddHealthy(o) = {}
  /\ UNCHANGED <<poolVars, since>>

\* cycle() whose iterator does not advance
StuckCursor(c, n) == c

\* cycle(): the position after the one just returned
NextCursor(c, n) == (c % n) + 1

\* ------------------------------------------- the _initialization_task
\* First step of the task created by ensure_initialized: _initialize returns
\* at once when _initialized is already set, else starts the health checks.
InitTaskStart ==
  /\ initialization_task = "created"
  /\ IF initialized
       THEN /\ initialization_task' = "ok"
            /\ UNCHANGED <<chk, checkedBy>>
       ELSE /\ initialization_task' = "running"
            /\ chk' = [chk EXCEPT ![TaskOwner] = NewRun]
            /\ checkedBy' = checkedBy \cup {TaskOwner}
  /\ UNCHANGED <<progVars, poolVars, initialization_lock, handVars, job,
                 storeVars, mainVars>>

InitTaskFinish ==
  /\ initialization_task = "running"
  /\ Gathered(TaskOwner)
  /\ \/ \E q \in Perms(AddHealthy(TaskOwner)) :
          /\ InitializeOk(TaskOwner, q)
          /\ cursor' = 1
          /\ initialization_task' = "ok"
     \/ /\ InitializeRaise(TaskOwner)
        /\ initialization_task' = "failed"
  /\ chk' = [chk EXCEPT ![TaskOwner] = IdleRun]
  /\ UNCHANGED <<progVars, initialization_lock, checkedBy, handed, job,
                 storeVars, mainVars>>

\* ---------------------------------------------------- ensure_initialized
MainId == NumJobs + 1     \* the main coroutine as holder of the lock

\* What ensure_initialized does up to its await, for a caller that got the
\* lock: "True" when already initialized, the outcome of a finished task
\* (wait_for on a done task re-raises at once), else "wait" holding the lock.
EnsureOutcome ==
  IF initialized THEN "True"
  ELSE IF initialization_task = "failed" THEN "False"
  ELSE IF initialization_task = "cancelled" THEN "CancelledError"
  ELSE "wait"

EnsureEnter(c) ==
  /\ initialization_lock = 0
  /\ initialization_lock' = IF EnsureOutcome = "wait" THEN c ELSE 0
  /\ initialization_task' =
       IF ~initialized /\ initialization_task = "None" THEN "created"
       ELSE initialization_task

\* The awaited task ended: True, or False when it raised
EnsureWake(c) ==
  /\ initialization_lock = c
  /\ initialization_task \in {"ok", "failed"}
  /\ initialization_lock' = 0
  /\ UNCHANGED <<initialization_task, chk>>

\* wait_for(..., timeout=60) expired: the task is cancelled, False is returned
EnsureExpire(c) ==
  /\ initialization_lock = c
  /\ initialization_task \in {"created", "running"}
  /\ initialization_lock' = 0
  /\ initialization_task' = "cancelled"
  /\ chk' = [chk EXCEPT ![TaskOwner] = IdleRun]

\* ------------------------------------------------- a coroutine's step
\* A step of job slot i is computed on a context: the slot's locals (j), the
\* StatusStore record of its prompt id (rec) and the requests issued (reqs).
Ctx(i) == [j |-> job[i], rec |-> store[i], reqs |-> requests]

Commit(i, c) ==
  /\ job' = [job EXCEPT ![i] = c.j]
  /\ store' = [store EXCEPT ![i] = c.rec]
  /\ requests' = c.reqs

Request(i, k, s) == [job |-> i, kind |-> k, srv |-> s]

\* ComfyUIRedisClient.set_task_status: the record replaces the stored one
set_task_status(c, s, d) == [c EXCEPT !.rec = [status |-> s, data |-> d]]

\* ComfyUIRedisClient.get_task_status: the parsed record (NoRecord for None)
get_task_status(c) == c.rec

\* TaskDispatcher.save_images: one path per image
save_images(i, n) == [k \in 1..n |-> <<i, k>>]

\* the get_result call under way was made by the holder of the job handle,
\* not from inside process_task or _process_single_image
Direct(c) == c.j.calls > 1 \/ c.j.op = "get_result"

\* An exception leaves the call: process_task and _process_single_image
\* catch it and return [], a direct get_result call passes it to its caller
Raise(i, c, e) ==
  [c EXCEPT !.j.pc = "done", !.j.error = e, !.j.attempt = 0, !.j.imgs = 0,
            !.j.result = IF Direct(c) THEN @ ELSE <<>>]

\* get_result returned (n images, st): a direct call is over; process_task
\* and _process_single_image return [] unless SUCCESS, else save the images
\* (sv = "raise": save_images raised, which they catch)
Finish(i, c0, st, n, sv) ==
  LET c == [c0 EXCEPT !.j.pc = "done", !.j.status = st, !.j.attempt = 0, !.j.imgs = 0,
                      !.j.out = n]
  IN IF Direct(c) THEN c
     ELSE IF st # "SUCCESS" THEN [c EXCEPT !.j.result = <<>>]
     ELSE IF sv = "saved" THEN [c EXCEPT !.j.result = save_images(i, n)]
     ELSE [c EXCEPT !.j.error = "SaveFailed", !.j.result = <<>>]

\* ------------------------------------------------------------ get_result
\* get_result asking the endpoint next in the cycle instead
HistoryServerNext(c) == server_cycle[cursor]

\* the endpoint get_result asks for the history: its parameter server
HistoryServer(c) == c.j.srv

\* the endpoint get_result fetches the images from: its parameter server
ImageServer(c) == c.j.srv

get_history(i, c) ==
  [c EXCEPT !.j.pc = "history",
            !.reqs = @ \cup {Request(i, "history", HistoryServer(c))}]

\* one get_image task per image descriptor, all created before the first await
get_image(i, c) ==
  [c EXCEPT !.j.pc = "view",
            !.reqs = @ \cup {Request(i, "view", ImageServer(c))}]

\* the for loop polling again without counting the attempt
NextAttemptForever(i, c) == get_history(i, c)

\* the for loop running one attempt too many
NextAttemptExtra(i, c) ==
  IF c.j.attempt < MaxRetries
    THEN get_history(i, [c EXCEPT !.j.attempt = @ + 1])
    ELSE Finish(i, set_task_status(c, "TIMEOUT", NoData), "TIMEOUT", 0, "saved")

\* the for loop moves on from attempt c.j.attempt; after the last one the
\* code below the loop writes TIMEOUT
NextAttempt(i, c) ==
  IF c.j.attempt + 1 < MaxRetries
    THEN get_history(i, [c EXCEPT !.j.attempt = @ + 1])
    ELSE Finish(i, set_task_status(c, "TIMEOUT", NoData), "TIMEOUT", 0, "saved")

\* the except branch never taking an attempt for the last
OnExceptionNeverLast(i, c, e) ==
  IF c.j.attempt = MaxRetries
    THEN Finish(i, set_task_status(c, "FAILED",
                     [key |-> "error", val |-> <<e>>]),
                "FAILED", 0, "saved")
    ELSE [c EXCEPT !.j.pc = "sleep"]

\* the except branch of the loop body, e = str(e)
OnException(i, c, e) ==
  IF c.j.attempt = MaxRetries - 1
    THEN Finish(i, set_task_status(c, "FAILED",
                     [key |-> "error", val |-> <<e>>]),
                "FAILED", 0, "saved")
    ELSE [c EXCEPT !.j.pc = "sleep"]

\* get_result up to its first await on a worker: the cache check reads the
\* key "image_paths" of the stored JSON object, then the loop starts
get_result(i, c0) ==
  LET c == [c0 EXCEPT !.j.calls = @ + 1, !.j.status = "None", !.j.error = "None",
                      !.j.out = 0]
      task_status == get_task_status(c)
  IN IF task_status.status = "COMPLETED"
       THEN IF "image_paths" \in TaskDataKeys
              THEN Finish(i, c, "SUCCESS", Len(task_status.data.val), "saved")
              ELSE Raise(i, c, "KeyError")
     ELSE IF MaxRetries > 0
       THEN get_history(i, [c EXCEPT !.j.attempt = 0])
       ELSE Finish(i, set_task_status(c, "TIMEOUT", NoData), "TIMEOUT", 0, "saved")

\* get_result resumed by the answer r to its history request: get_history
\* raised r, or the JSON has no entry for the prompt id ("noentry", which
\* history[prompt_id] turns into KeyError), or the entry has no "outputs"
\* ("pending"), or it has, with n image descriptors ("outputs")
get_result_history(i, c, r, n) ==
  IF r \in Exceptions THEN OnException(i, c, r)
  ELSE IF r = "noentry" THEN OnException(i, c, "KeyError")
  ELSE IF r = "pending" THEN [c EXCEPT !.j.pc = "sleep"]
  ELSE IF n = 0 THEN NextAttempt(i, c)
  ELSE get_image(i, [c EXCEPT !.j.imgs = n])

\* get_result resumed by its get_image tasks: all bytes there, or one raised
get_result_images(i, c, r, sv) ==
  IF r = "ok"
    THEN Finish(i, set_task_status(c, "COMPLETED",
                     [key |-> "image_paths", val |-> <<>>]),
                "SUCCESS", c.j.imgs, sv)
    ELSE OnException(i, c, r)

\* ---------------------------------------------------------------- submit
\* POST {server}/prompt is sent
Post(i, c, s) ==
  [c EXCEPT !.j.srv = s, !.j.pc = "post", !.j.posts = @ + 1,
            !.reqs = @ \cup {Request(i, "prompt", s)}]

\* queue_prompt going on without a prompt id instead of raising
queue_prompt_fallback(i, c, r) ==
  IF r \in {"id", "noid"} THEN set_task_status([c EXCEPT !.j.pid = i], "PENDING", NoData)
  ELSE Raise(i, c, "SubmitFailed")

\* queue_prompt resumed by the answer r to its POST
queue_prompt(i, c, r) ==
  IF r = "id" THEN set_task_status([c EXCEPT !.j.pid = i], "PENDING", NoData)
  ELSE IF r = "noid" THEN Raise(i, c, "NoPromptId")
  ELSE Raise(i, c, "SubmitFailed")

\* queue_prompt_to_server sending the POST once more after a failure
queue_prompt_to_server_retry(i, c, r) ==
  IF r = "id" THEN set_task_status([c EXCEPT !.j.pid = i], "PENDING", NoData)
  ELSE IF c.j.posts < 2 THEN Post(i, c, c.j.srv)
  ELSE Raise(i, c, "SubmitFailed")

\* queue_prompt_to_server resumed by the answer r to its POST
queue_prompt_to_server(i, c, r) ==
  IF r = "id" THEN set_task_status([c EXCEPT !.j.pid = i], "PENDING", NoData)
  ELSE IF r = "noid" THEN Raise(i, c, "NoPromptId")
  ELSE Raise(i, c, "SubmitFailed")

\* process_task / _process_single_image from the answer to the POST up to
\* the next await: submit returns the prompt id, get_result starts
Submitted(i, c, r) ==
  LET c1 == IF c.j.op = "process_task" THEN queue_prompt(i, c, r)
            ELSE queue_prompt_to_server(i, c, r)
  IN IF c1.j.pc = "done" THEN c1 ELSE get_result(i, c1)

otherVars == <<progVars, poolVars, taskVars, checkVars, handVars, mainVars>>

SubmitResponse(i) ==
  /\ job[i].pc = "post"
  /\ \E r \in {"id", "noid", "error"} :
       Commit(i, Submitted(i, [Ctx(i) EXCEPT !.j.resp = r], r))
  /\ UNCHANGED otherVars

HistoryResponse(i) ==
  /\ job[i].pc = "history"
  /\ \E r \in {"Exception", "pending", "outputs"}, n \in 0..MaxImages :
       /\ r # "outputs" => n = 0
       /\ Commit(i, get_result_history(i, Ctx(i), r, n))
  /\ UNCHANGED otherVars

\* asyncio.sleep(retry_delay) is over
SleepDone(i) ==
  /\ job[i].pc = "sleep"
  /\ Commit(i, NextAttempt(i, Ctx(i)))
  /\ UNCHANGED otherVars

ImageResponse(i) ==
  /\ job[i].pc = "view"
  /\ \E r \in {"ok", "Exception"}, sv \in {"saved", "raise"} :
       /\ r # "ok" => sv = "saved"
       /\ Commit(i, get_result_images(i, Ctx(i), r, sv))
  /\ UNCHANGED otherVars

\* a caller asks again for the result of a job it holds the handle of
GetResultAgain(i) ==
  /\ entry = "process_task"
  /\ job[i].op = "process_task"
  /\ job[i].pc = "done"
  /\ job[i].pid # 0
  /\ job[i].calls <= MaxRepeat
  /\ Commit(i, get_result(i, Ctx(i)))
  /\ UNCHANGED otherVars

\* ------------------------------------- callers of the TaskDispatcher API
Clients == 1..MaxClients

Handed(s, avail) == [srv |-> s, avail |-> avail]

\* process_task starts: queue_prompt calls get_next_server, which returns
\* next(self.server_cycle) when _initialized is set and else awaits its own
\* run of _initialize; with a server in hand the POST is sent.
ProcessTask(i) ==
  /\ entry = "process_task"
  /\ i \in Clients
  /\ job[i].pc = "none"
  /\ IF initialized
       THEN /\ handed' = Append(handed, Handed(server_cycle[cursor], available_servers))
            /\ cursor' = NextCursor(cursor, Len(server_cycle))
            /\ Commit(i, Post(i, [Ctx(i) EXCEPT !.j.op = "process_task"],
                              server_cycle[cursor]))
            /\ UNCHANGED <<chk, checkedBy, initialized, available_servers,
                           server_cycle, since>>
       ELSE /\ chk' = [chk EXCEPT ![i] = NewRun]
            /\ checkedBy' = checkedBy \cup {i}
            /\ Commit(i, [Ctx(i) EXCEPT !.j.op = "process_task", !.j.pc = "init"])
            /\ UNCHANGED <<poolVars, handVars>>
  /\ UNCHANGED <<progVars, taskVars, mainVars>>

\* get_next_server resumed by the gather of its own run of _initialize
GetNextServerResume(i) ==
  /\ job[i].pc = "init"
  /\ Gathered(i)
  /\ \/ \E q \in Perms(AddHealthy(i)) :
          /\ InitializeOk(i, q)
          /\ cursor' = NextCursor(1, Len(q))
          /\ handed' = Append(handed, Handed(q[1], AddHealthy(i)))
          /\ Commit(i, Post(i, Ctx(i), q[1]))
     \/ /\ InitializeRaise(i)
        /\ Commit(i, Raise(i, Ctx(i), "RuntimeError"))
        /\ UNCHANGED handed
  /\ chk' = [chk EXCEPT ![i] = IdleRun]
  /\ UNCHANGED <<progVars, taskVars, checkedBy, mainVars>>

Bool(b) == IF b THEN "True" ELSE "False"

\* TaskDispatcher._check_servers starts: wait_for(self._initialize(), 30)
\* unless _initialized is set
CheckServers(i) ==
  /\ entry = "process_task"
  /\ i \in Clients
  /\ job[i].pc = "none"
  /\ IF initialized
       THEN /\ job' = [job EXCEPT ![i].op = "_check_servers", ![i].pc = "done",
                                  ![i].status = Bool(available_servers # {})]
            /\ UNCHANGED <<chk, checkedBy>>
       ELSE /\ job' = [job EXCEPT ![i].op = "_check_servers", ![i].pc = "check"]
            /\ chk' = [chk EXCEPT ![i] = NewRun]
            /\ checkedBy' = checkedBy \cup {i}
  /\ UNCHANGED <<progVars, poolVars, taskVars, handVars, storeVars, mainVars>>

\* _check_servers resumed by its run of _initialize; RuntimeError is caught
CheckServersResume(i) ==
  /\ job[i].pc = "check"
  /\ Gathered(i)
  /\ \/ \E q \in Perms(AddHealthy(i)) :
          /\ InitializeOk(i, q)
          /\ cursor' = 1
          /\ job' = [job EXCEPT ![i].pc = "done", ![i].status = Bool(AddHealthy(i) # {})]
     \/ /\ InitializeRaise(i)
        /\ job' = [job EXCEPT ![i].pc = "done", ![i].status = "False"]
  /\ chk' = [chk EXCEPT ![i] = IdleRun]
  /\ UNCHANGED <<progVars, taskVars, checkedBy, handed, storeVars, mainVars>>

\* wait_for(..., timeout=30) expired: the run is cancelled, False is returned
CheckServersExpire(i) ==
  /\ job[i].pc = "check"
  /\ job' = [job EXCEPT ![i].pc = "done", ![i].status = "False"]
  /\ chk' = [chk EXCEPT ![i] = IdleRun]
  /\ UNCHANGED <<progVars, poolVars, taskVars, checkedBy, handVars, storeVars,
                 mainVars>>

\* a caller of ensure_initialized gets the lock
EnsureInitialized(i) ==
  /\ entry = "process_task"
  /\ i \in Clients
  /\ job[i].pc = "none"
  /\ EnsureEnter(i)
  /\ job' = [job EXCEPT
       ![i].op = "ensure_initialized",
       ![i].pc = IF EnsureOutcome = "wait" THEN "ensure" ELSE "done",
       ![i].status = IF EnsureOutcome \in {"True", "False"} THEN EnsureOutcome ELSE @,
       ![i].error = IF EnsureOutcome = "CancelledError" THEN EnsureOutcome ELSE @]
  /\ UNCHANGED <<progVars, poolVars, checkVars, handVars, storeVars, mainVars>>

EnsureResume(i) ==
  /\ job[i].pc = "ensure"
  /\ EnsureWake(i)
  /\ job' = [job EXCEPT ![i].pc = "done",
                        ![i].status = Bool(initialization_task = "ok")]
  /\ UNCHANGED <<progVars, poolVars, checkedBy, handVars, storeVars, mainVars>>

\* a caller that got its answer from ensure_initialized calls it again
EnsureInitializedAgain(i) ==
  /\ entry = "process_task"
  /\ job[i].op = "ensure_initialized"
  /\ job[i].pc = "done"
  /\ job[i].calls < MaxRepeat
  /\ EnsureEnter(i)
  /\ job' = [job EXCEPT
       ![i].calls = @ + 1,
       ![i].pc = IF EnsureOutcome = "wait" THEN "ensure" ELSE "done",
       ![i].status = IF EnsureOutcome \in {"True", "False"} THEN EnsureOutcome ELSE "None",
       ![i].error = IF EnsureOutcome = "CancelledError" THEN EnsureOutcome ELSE "None"]
  /\ UNCHANGED <<progVars, poolVars, checkVars, handVars, storeVars, mainVars>>

EnsureTimeout(i) ==
  /\ job[i].pc = "ensure"
  /\ EnsureExpire(i)
  /\ job' = [job EXCEPT ![i].pc = "done", ![i].status = "False"]
  /\ UNCHANGED <<progVars, poolVars, checkedBy, handVars, storeVars, mainVars>>

\* ------------------------------------------------- BatchProcessor.run
\* BatchProcessor._check_servers ignoring what ensure_initialized returned
check_servers_ignore(ensured) == TRUE

\* BatchProcessor._check_servers once ensure_initialized returned ensured
check_servers(ensured) == ensured /\ available_servers # {}

\* run starts: BatchProcessor._check_servers calls ensure_initialized when
\* the dispatcher has no available server
RunCheckServers ==
  /\ mpc = "run"
  /\ IF available_servers # {}
       THEN /\ mpc' = "process_folder"
            /\ UNCHANGED taskVars
       ELSE /\ EnsureEnter(MainId)
            /\ mpc' = IF EnsureOutcome = "wait" THEN "ensure"
                      ELSE IF check_servers(EnsureOutcome = "True")
                        THEN "process_folder"
                      ELSE "end"
  /\ UNCHANGED <<progVars, poolVars, checkVars, handVars, job, storeVars, planVars,
                 loopVars>>

\* ensure_initialized returned: run goes on only with True and a server
RunEnsureResume ==
  /\ mpc = "ensure"
  /\ EnsureWake(MainId)
  /\ mpc' = IF check_servers(initialization_task = "ok")
              THEN "process_folder" ELSE "end"
  /\ UNCHANGED <<progVars, poolVars, checkedBy, handVars, job, storeVars,
                 planVars, loopVars>>

RunEnsureTimeout ==
  /\ mpc = "ensure"
  /\ EnsureExpire(MainId)
  /\ mpc' = "end"
  /\ UNCHANGED <<progVars, poolVars, checkedBy, handVars, job, storeVars,
                 planVars, loopVars>>

\* ----------------------------------------------------- process_folder
\* the for loop creating every task without waiting for a completion
AdmitCountAll(A, i, k) == k - i

\* How many task_queue entries the for loop admits before the main coroutine
\* suspends, with A the active tasks, i entries admitted and k = len(task_queue):
\* after each create_task the loop waits while len(active_tasks) >= batch_size
AdmitCount(A, i, k) ==
  IF Cardinality(A) >= batch_size THEN 0
  ELSE Min(batch_size - Cardinality(A), k - i)

\* every task_queue entry going to the first endpoint of the list
ServerOfFirst(t, q) == q[1]

\* the endpoint of the task_queue entry t (1-based): q[task_idx % server_count]
ServerOf(t, q) == q[((t - 1) % Len(q)) + 1]

\* the for loop ending at the first failed job
AdmitUntilFailure(A, i, k0, q) ==
  LET k   == IF \E t \in 1..i : job[t].pc = "done" /\ job[t].result = <<>>
               THEN i ELSE k0
      m   == AdmitCount(A, i, k)
      new == (i + 1)..(i + m)
      A2  == A \cup new
  IN /\ task_idx' = i + m
     /\ job' = [t \in Jobs |->
                  IF t \in new
                    THEN [NewJob EXCEPT !.op = "image", !.pc = "created",
                                        !.srv = ServerOf(t, q)]
                    ELSE job[t]]
     /\ active_tasks' = {t \in A2 : job[t].pc # "done"}
     /\ mpc' = IF Cardinality(A2) >= batch_size THEN "wait"
               ELSE IF A2 # {} THEN "drain" ELSE "end"
     /\ fs' = IF mpc' = "end" THEN {} ELSE A2

\* The for loop up to the next suspension of the main coroutine: tasks are
\* created, then asyncio.wait (inside the while) or as_completed (below the
\* loop) is called with active_tasks.  The done callbacks that are pending
\* when the main coroutine suspends run before it resumes.
Admit(A, i, k, q) ==
  LET m   == AdmitCount(A, i, k)
      new == (i + 1)..(i + m)
      A2  == A \cup new
  IN /\ task_idx' = i + m
     /\ job' = [t \in Jobs |->
                  IF t \in new
                    THEN [NewJob EXCEPT !.op = "image", !.pc = "created",
                                        !.srv = ServerOf(t, q)]
                    ELSE job[t]]
     /\ active_tasks' = {t \in A2 : job[t].pc # "done"}
     /\ mpc' = IF Cardinality(A2) >= batch_size THEN "wait"
               ELSE IF A2 # {} THEN "drain" ELSE "end"
     /\ fs' = IF mpc' = "end" THEN {} ELSE A2

\* process_folder up to its first suspension in the loop: the folders are
\* scanned and the plan is made (k entries), the available servers are listed
ProcessFolder ==
  /\ mpc = "process_folder"
  /\ \E k \in 0..MaxPlan, q \in Perms(available_servers) :
       /\ total_tasks' = k
       /\ avail_list' = q
       /\ Admit({}, 0, k, q)
  /\ UNCHANGED <<progVars, poolVars, taskVars, checkVars, handVars, storeVars,
                 batch_size, all_results, processed_count>>

\* the results of the tasks ord[1], ord[2], ... one after the other
RECURSIVE Collected(_, _)
Collected(ord, n) ==
  IF n = 0 THEN <<>> ELSE Collected(ord, n - 1) \o job[ord[n]].result

\* asyncio.wait returned: every done task of the set it was called with is
\* awaited, then the while and for loops go on
ProcessFolderWake ==
  /\ mpc = "wait"
  /\ \E t \in fs : job[t].pc = "done" /\ t \notin active_tasks
  /\ LET done == {t \in fs : job[t].pc = "done"}
     IN \E ord \in Perms(done) :
          /\ all_results' = all_results \o Collected(ord, Cardinality(done))
          /\ processed_count' = processed_count + Cardinality(done)
  /\ Admit(active_tasks, task_idx, total_tasks, avail_list)
  /\ UNCHANGED <<progVars, poolVars, taskVars, checkVars, handVars, storeVars, planVars>>

\* as_completed yields the next finished task; after the last one
\* process_folder returns all_results and closes the dispatcher
ProcessFolderDrain ==
  /\ mpc = "drain"
  /\ \E t \in fs :
       /\ job[t].pc = "done"
       /\ all_results' = all_results \o job[t].result
       /\ processed_count' = processed_count + 1
       /\ fs' = fs \ {t}
       /\ mpc' = IF fs' = {} THEN "end" ELSE "drain"
  /\ UNCHANGED <<progVars, poolVars, taskVars, checkVars, handVars, job, storeVars,
                 planVars, task_idx, active_tasks>>

\* task.add_done_callback(active_tasks.discard) runs for a finished task
DoneCallback(t) ==
  /\ job[t].op = "image"
  /\ job[t].pc = "done"
  /\ t \in active_tasks
  /\ active_tasks' = active_tasks \ {t}
  /\ UNCHANGED <<progVars, poolVars, taskVars, checkVars, handVars, job, storeVars, mpc,
                 planVars, task_idx, fs, all_results, processed_count>>

\* process_combined_images starts: the payload is built (r = "raise": that
\* failed, [] is returned), _process_single_image sends the POST
ProcessCombinedImages(t) ==
  /\ job[t].pc = "created"
  /\ \E r \in {"ok", "raise"} :
       Commit(t, IF r = "ok" THEN Post(t, Ctx(t), job[t].srv)
                 ELSE Raise(t, Ctx(t), "PayloadFailed"))
  /\ UNCHANGED otherVars

Next ==
  \/ \E o \in Owners, s \in Servers : CheckResponse(o, s)
  \/ InitTaskStart
  \/ InitTaskFinish
  \/ \E i \in Jobs : ProcessTask(i)
  \/ \E i \in Jobs : GetNextServerResume(i)
  \/ \E i \in Jobs : CheckServers(i)
  \/ \E i \in Jobs : CheckServersResume(i)
  \/ \E i \in Jobs : CheckServersExpire(i)
  \/ \E i \in Jobs : EnsureInitialized(i)
  \/ \E i \in Jobs : EnsureResume(i)
  \/ \E i \in Jobs : EnsureTimeout(i)
  \/ \E i \in Jobs : EnsureInitializedAgain(i)
  \/ \E i \in Jobs : SubmitResponse(i)
  \/ \E i \in Jobs : HistoryResponse(i)
  \/ \E i \in Jobs : SleepDone(i)
  \/ \E i \in Jobs : ImageResponse(i)
  \/ \E i \in Jobs : GetResultAgain(i)
  \/ RunCheckServers
  \/ RunEnsureResume
  \/ RunEnsureTimeout
  \/ ProcessFolder
  \/ ProcessFolderWake
  \/ ProcessFolderDrain
  \/ \E t \in Jobs : DoneCallback(t)
  \/ \E t \in Jobs : ProcessCombinedImages(t)

Spec == Init /\ [][Next]_vars

\* =================================================================
\* Properties
\* =================================================================

\* jobs of process_folder that were admitted (task created) and have not completed
InFlight == {t \in Jobs : job[t].op = "image" /\ job[t].pc # "done"}

\* C1: in process_folder with batch_size < len(task_queue), the number of
\* jobs admitted and not yet completed never exceeds batch_size.
C1_ConcurrencyBound ==
  (entry = "run" /\ batch_size < total_tasks) =>
     Cardinality(InFlight) <= batch_size

\* C1 witness: two jobs in flight under batch_size 2 after an earlier job
\* completed, the whole plan of three admitted.
C1_Witness ==
  /\ entry = "run"
  /\ batch_size = 2
  /\ total_tasks = 3
  /\ task_idx = 3
  /\ Cardinality(InFlight) = 2
  /\ \E t \in Jobs : job[t].op = "image" /\ job[t].pc = "done"

\* no run of _initialize is in flight
NoRun == \A o \in Owners : ~Running(o)

\* C2: once initialization has succeeded and is over, every window of n
\* consecutive endpoints returned by get_next_server since the cycle was
\* made contains each of the n healthy endpoints exactly once.
C2_RoundRobin ==
  (initialized /\ NoRun) =>
     LET n == Cardinality(available_servers)
     IN \A a \in (since + 1)..(Len(handed) - n + 1) :
          {handed[k].srv : k \in a..(a + n - 1)} = available_servers

\* C2 witness: two healthy endpoints, two endpoints handed out since the
\* cycle was made.
C2_Witness ==
  /\ initialized
  /\ NoRun
  /\ Cardinality(available_servers) = 2
  /\ Len(handed) - since >= 2

\* C3: the health checks are executed by at most one run of _initialize.
C3_SingleFlight == Cardinality(checkedBy) <= 1

\* C4: in the merged sequence of endpoints handed out to all callers no
\* endpoint is handed out twice before every other healthy endpoint has
\* been handed out once.
C4_MergedRoundRobin ==
  \A a, b \in 1..Len(handed) :
    (a < b /\ handed[a].srv = handed[b].srv) =>
       (handed[b].avail \ {handed[b].srv}) \subseteq {handed[k].srv : k \in (a + 1)..(b - 1)}

\* C5: when the initialization of BatchProcessor.run ended with no healthy
\* endpoint, the dispatcher is uninitialized with an empty healthy set and
\* run is in or past ensure_initialized on its way out, with nothing planned,
\* no task created and no request sent to a worker.
C5_NoHealthyWorkers ==
  (entry = "run" /\ initialization_task = "failed") =>
     /\ ~initialized
     /\ available_servers = {}
     /\ server_cycle = <<>>
     /\ mpc \in {"ensure", "end"}
     /\ total_tasks = 0
     /\ task_idx = 0
     /\ requests = {}
     /\ \A t \in Jobs : job[t].pc = "none"

\* C5 witness: run has ended after the failed initialization.
C5_Witness ==
  /\ entry = "run"
  /\ initialization_task = "failed"
  /\ mpc = "end"

\* C6: a health check that ended without HTTP 200 has made all 3 attempts.
C6_ThreeAttempts ==
  \A o \in Owners, s \in Servers :
    chk[o][s].st = "false" => chk[o][s].n = MaxChecks

\* C7: every history request and every image request of a job goes to the
\* endpoint its submit request went to, and a job is submitted to one
\* endpoint only.
C7_SameWorker ==
  /\ \A r \in requests :
       r.kind \in {"history", "view"} => Request(r.job, "prompt", r.srv) \in requests
  /\ \A r1, r2 \in requests :
       (r1.kind = "prompt" /\ r2.kind = "prompt" /\ r1.job = r2.job) => r1.srv = r2.srv

\* C7 witness: two concurrent jobs of process_folder on different endpoints,
\* one fetching images and one polling its history.
C7_Witness ==
  \E r1, r2 \in requests :
    /\ r1.job # r2.job
    /\ r1.srv # r2.srv
    /\ r1.kind = "view"
    /\ r2.kind = "history"
    /\ job[r1.job].pc = "view"
    /\ job[r2.job].pc = "history"

\* C8: a job whose submit was answered without a prompt id ended with an
\* error, has no PENDING record (no record at all), caused no history or
\* image request and returned an empty list.
C8_NoPromptId ==
  \A i \in Jobs :
    job[i].resp = "noid" =>
       /\ job[i].pc = "done"
       /\ job[i].error = "NoPromptId"
       /\ job[i].pid = 0
       /\ store[i] = NoRecord
       /\ job[i].result = <<>>
       /\ \A r \in requests : r.job = i => r.kind = "prompt"

\* C8 witness: both a process_task call and a later slot state with the
\* answer without a prompt id.
C8_Witness ==
  \E i \in Jobs :
    /\ job[i].resp = "noid"
    /\ job[i].op = "process_task"
    /\ job[i].pc = "done"

\* C9: a get_result call that finds the record COMPLETED returns SUCCESS
\* without raising and without any request to a worker.
C9_CachedCompleted ==
  [][\A i \in Jobs :
       (job'[i].calls = job[i].calls + 1 /\ store[i].status = "COMPLETED") =>
          /\ job'[i].pc = "done"
          /\ job'[i].status = "SUCCESS"
          /\ job'[i].error = "None"
          /\ requests' = requests]_vars

\* C10: the stored status is first PENDING, and a stored terminal status is
\* never replaced by a different status.
C10_MonotoneStatus ==
  [][\A p \in Jobs :
       /\ store[p].status = "None" => store'[p].status \in {"None", "PENDING"}
       /\ store[p].status \in Terminal => store'[p].status = store[p].status]_vars

\* =================================================================
\* Program "get_result": the holder of a job handle calls
\* TaskDispatcher.get_result(prompt_id, server) itself, once or again.
\* The handle comes from queue_prompt_to_server, which stored PENDING.
\* hist records, for the call under way, each answer to a history request
\* ([r, n]: the answer and its number of image descriptors), each
\* asyncio.sleep(retry_delay) ("sleep") and each end of the image fetches
\* ("fetched", or the exception).
\* =================================================================
PollJob == 1

Event(r, n) == [r |-> r, n |-> n]

PollInit ==
  /\ entry = "get_result"
  /\ NoPlan
  /\ NoQueue
  /\ NoPoll
  /\ ApiFresh
  /\ Fresh
  /\ \E s \in Servers :
       job = [i \in Jobs |-> IF i = PollJob
                THEN [NewJob EXCEPT !.op = "get_result", !.srv = s, !.pid = PollJob,
                                    !.resp = "id"]
                ELSE NewJob]
  /\ store = [i \in Jobs |-> IF i = PollJob
                THEN [status |-> "PENDING", data |-> NoData] ELSE NoRecord]
  /\ mpc = "none"
  /\ batch_size = 1

pollOther == <<entry, quotaVars, generation_times, queueVars, apiVars, poolVars, taskVars,
               checkVars, handVars, mainVars>>

\* get_result is called and runs to its first await on the worker
PollCall ==
  /\ job[PollJob].pc \in {"none", "done"}
  /\ job[PollJob].calls <= MaxRepeat
  /\ Commit(PollJob, get_result(PollJob, Ctx(PollJob)))
  /\ hist' = <<>>
  /\ start' = store[PollJob].status
  /\ UNCHANGED pollOther

\* the answer to the history request arrives
PollHistory ==
  /\ job[PollJob].pc = "history"
  /\ \E r \in Exceptions \cup {"noentry", "pending", "outputs"}, n \in 0..MaxImages :
       /\ r # "outputs" => n = 0
       /\ Commit(PollJob, get_result_history(PollJob, Ctx(PollJob), r, n))
       /\ hist' = Append(hist, Event(r, n))
  /\ UNCHANGED <<start, pollOther>>

\* asyncio.sleep(retry_delay) is over
PollSleep ==
  /\ job[PollJob].pc = "sleep"
  /\ Commit(PollJob, NextAttempt(PollJob, Ctx(PollJob)))
  /\ hist' = Append(hist, Event("sleep", 0))
  /\ UNCHANGED <<start, pollOther>>

\* the get_image tasks are over
PollImages ==
  /\ job[PollJob].pc = "view"
  /\ \E r \in {"ok"} \cup Exceptions :
       /\ Commit(PollJob, get_result_images(PollJob, Ctx(PollJob), r, "saved"))
       /\ hist' = Append(hist, Event(IF r = "ok" THEN "fetched" ELSE "fetch_raised", 0))
  /\ UNCHANGED <<start, pollOther>>

PollNext ==
  \/ PollCall
  \/ PollHistory
  \/ PollSleep
  \/ PollImages

PollSpec == PollInit /\ [][PollNext]_vars

\* the answers to the history requests of the call under way, in order
HistoryAnswers == SelectSeq(hist, LAMBDA e : e.r \notin {"sleep", "fetched", "fetch_raised"})

Range(q) == {q[k] : k \in 1..Len(q)}

\* the call under way is over and went through the polling loop
Polled == job[PollJob].pc = "done" /\ job[PollJob].calls > 0 /\ start # "COMPLETED"

\* -----------------------------------------------------------------
\* C11: a get_result call that finds the stored status FAILED or TIMEOUT
\* returns without issuing any history request to the worker.
C11_TerminalHit ==
  start \in {"FAILED", "TIMEOUT"} =>
     (job[PollJob].pc = "done" /\ HistoryAnswers = <<>>)

\* C12: if every history call of a get_result call raised, the call made
\* exactly max_retries history calls, returned FAILED with no outputs, and
\* the stored record is FAILED with the message of the last exception.
C12_RetryExhaustion ==
  (Polled /\ \A k \in 1..Len(HistoryAnswers) : HistoryAnswers[k].r \in Exceptions) =>
     /\ Len(HistoryAnswers) = MaxRetries
     /\ job[PollJob].status = "FAILED"
     /\ job[PollJob].out = 0
     /\ store[PollJob] = [status |-> "FAILED",
                          data |-> [key |-> "error",
                                    val |-> <<HistoryAnswers[MaxRetries].r>>]]

\* C12 witness: a call over after max_retries history calls that all raised,
\* the last exception differing from the first.
C12_Witness ==
  /\ Polled
  /\ Len(HistoryAnswers) = MaxRetries
  /\ \A k \in 1..Len(HistoryAnswers) : HistoryAnswers[k].r \in Exceptions
  /\ HistoryAnswers[MaxRetries].r = "ReadTimeout"
  /\ HistoryAnswers[1].r = "ConnectError"
  /\ store[PollJob].status = "FAILED"

C14_OutputsComplete ==
  \A k \in 1..Len(hist) :
    (hist[k].r = "outputs" /\ \A m \in 1..(k - 1) : hist[m].r # "outputs") =>
       \/ /\ k = Len(hist)
          /\ job[PollJob].pc = "view"
          /\ job[PollJob].imgs = hist[k].n
       \/ /\ k + 1 = Len(hist)
          /\ hist[k + 1].r = "fetched"
          /\ job[PollJob].pc = "done"
          /\ job[PollJob].status = "SUCCESS"
          /\ job[PollJob].out = hist[k].n
          /\ store[PollJob].status = "COMPLETED"
       \/ /\ k < Len(hist)
          /\ hist[k + 1].r = "fetch_raised"

\* C15: within one get_result call a history request follows the previous
\* one only after an asyncio.sleep(retry_delay).
C15_SleepBetweenPolls ==
  /\ \A a, b \in 1..Len(hist) :
       (a < b /\ hist[a] \in Range(HistoryAnswers) /\ hist[b] \in Range(HistoryAnswers)) =>
          \E m \in (a + 1)..(b - 1) : hist[m].r = "sleep"
  /\ (job[PollJob].pc = "history" /\ hist # <<>>) => hist[Len(hist)].r = "sleep"

C17_EveryJobRecorded ==
  (entry = "run" /\ mpc = "end") =>
     \A t \in 1..total_tasks : store[t].status # "None"

\* =================================================================
\* BatchProcessor.run alone, under the scheduling of the event loop: a ready
\* callback or coroutine is run, and a request to a worker is answered or
\* raises (every httpx call carries a timeout), so a step that can be taken
\* is eventually taken.
\* =================================================================
RunInit == Init /\ entry = "run"

RunNext ==
  \/ \E o \in Owners, s \in Servers : CheckResponse(o, s)
  \/ InitTaskStart
  \/ InitTaskFinish
  \/ \E i \in Jobs : SubmitResponse(i)
  \/ \E i \in Jobs : HistoryResponse(i)
  \/ \E i \in Jobs : SleepDone(i)
  \/ \E i \in Jobs : ImageResponse(i)
  \/ RunCheckServers
  \/ RunEnsureResume
  \/ RunEnsureTimeout
  \/ ProcessFolder
  \/ ProcessFolderWake
  \/ ProcessFolderDrain
  \/ \E t \in Jobs : DoneCallback(t)
  \/ \E t \in Jobs : ProcessCombinedImages(t)

LiveSpec == RunInit /\ [][RunNext]_vars /\ WF_vars(RunNext)

\* process_folder has returned with every planned job admitted and over
AllDone ==
  /\ mpc = "end"
  /\ task_idx = total_tasks
  /\ \A t \in 1..total_tasks : job[t].op = "image" /\ job[t].pc = "done"

RECURSIVE Sum(_)
Sum(q) == IF q = <<>> THEN 0 ELSE q[1] + Sum(Tail(q))

\* every leftover unit going to the first image of the shuffled indices
GenerationTimesFirst(n, target, mn, mx, indices) ==
  LET remaining       == target - (mn * n)
      base_additional == remaining \div n
      extra_count     == remaining % n
  IN [i \in 1..n |->
        IF remaining > 0
          THEN mn + base_additional + (IF indices[1] = i THEN extra_count ELSE 0)
          ELSE mn]

\* generation_times as the code leaves it: min_per_image each, then, if
\* something remains of generations_per_style, an even share each and one
\* more for the first extra_count images of the shuffled indices (1-based
\* here).  max_additional = max_per_image - min_per_image is computed by the
\* code and never used.
GenerationTimes(n, target, mn, mx, indices) ==
  LET remaining       == target - (mn * n)
      max_additional  == mx - mn
      base_additional == remaining \div n
      extra_count     == remaining % n
  IN [i \in 1..n |->
        IF remaining > 0
          THEN mn + base_additional
                  + (IF \E k \in 1..extra_count : indices[k] = i THEN 1 ELSE 0)
          ELSE mn]

PlanInit ==
  /\ entry = "plan"
  /\ NoPoll
  /\ ApiFresh
  /\ NoQueue
  /\ Fresh
  /\ image_count \in 1..MaxGroup
  /\ generations_per_style \in 0..MaxTarget
  /\ min_per_image \in 0..MaxMinPer
  /\ max_per_image \in 0..MaxMaxPer
  /\ generation_times = <<>>
  /\ job = [i \in Jobs |-> NewJob]
  /\ store = [i \in Jobs |-> NoRecord]
  /\ mpc = "none"
  /\ batch_size = 1

\* the body of the loop over style_folders for one folder
Plan ==
  /\ generation_times = <<>>
  /\ \E indices \in Perms(1..image_count) :
       generation_times' = GenerationTimes(image_count, generations_per_style,
                                           min_per_image, max_per_image, indices)
  /\ UNCHANGED <<entry, pollVars, quotaVars, queueVars, apiVars, poolVars, taskVars,
                 checkVars, handVars, job, storeVars, mainVars>>

PlanNext == Plan

PlanSpec == PlanInit /\ [][PlanNext]_vars

\* the plan is made and the configuration is one the planner is specified for
PlannedInRange ==
  /\ generation_times # <<>>
  /\ generations_per_style >= image_count * min_per_image
  /\ max_per_image >= min_per_image

\* C19: the repeat counts of a group sum to min(target, n * max).
C19_PlanSum ==
  PlannedInRange =>
     Sum(generation_times) = Min(generations_per_style, image_count * max_per_image)

\* C20: every repeat count of a group lies in [min, max].
C20_PlanWithinBounds ==
  PlannedInRange =>
     \A i \in 1..image_count :
        /\ generation_times[i] >= min_per_image
        /\ generation_times[i] <= max_per_image

\* -----------------------------------------------------------------
\* what is left of the target once every image has its minimum, never negative
Remaining ==
  IF generations_per_style > image_count * min_per_image
    THEN generations_per_style - (image_count * min_per_image) ELSE 0

\* C21: whatever the shuffle, any two repeat counts of a group differ by at
\* most 1, and exactly (remaining mod n) images have one unit more than the
\* others.
C21_PlanEven ==
  generation_times # <<>> =>
     LET base == min_per_image + (Remaining \div image_count)
         more == {i \in 1..image_count : generation_times[i] = base + 1}
     IN /\ \A i, j \in 1..image_count :
             generation_times[i] - generation_times[j] \in {-1, 0, 1}
        /\ Cardinality(more) = Remaining % image_count
        /\ \A i \in (1..image_count) \ more : generation_times[i] = base

\* C21 witness: three images, two leftover units, and the shuffle gave them to
\* the last two images.
C21_Witness ==
  /\ image_count = 3
  /\ Remaining % image_count = 2
  /\ generation_times # <<>>
  /\ generation_times[2] = generation_times[1] + 1
  /\ generation_times[3] = generation_times[1] + 1

\* =================================================================
\* Program "queue": process_folder from the scan to the task queue
\* (service.py:295-541) for one style folder, on every configuration and
\* scan within the bounds.  The two roles are the main one ("style") and
\* one other ("model").  A role is configured with "required" (True, False
\* or not set) and, for the other role, with how its image is selected:
\* "folder" (is_folder and random_folder), "random" (random_select) or
\* "sequential".  What random.choice and the file system give is a choice.
\* =================================================================
Roles == {"style", "model"}

\* main_input_type
MainRole == "style"

\* image_paths[input_type] = None
NoPath == <<"None", 0>>

\* input_config.get("required", dflt)
Required(cfg, dflt) == IF cfg.required = "unset" THEN dflt ELSE cfg.required = "True"

\* missing_inputs: the roles marked required that no scanned image belongs to
MissingInputs(mapping, groups) ==
  {r \in Roles : Required(mapping[r], FALSE) /\ groups[r] = 0}

\* the keys of input_images: the roles required or not marked
InputImages(mapping) == {r \in Roles : Required(mapping[r], TRUE)}

\* the second check skipped
LacksImagesNever(mapping, groups) == FALSE

\* the second check: a role of input_images has no image
LacksImages(mapping, groups) ==
  \E r \in InputImages(mapping) : groups[r] = 0

\* process_folder returns [] before the servers are checked and the plan made
EarlyReturn(mapping, groups) ==
  \/ \A r \in Roles : groups[r] = 0
  \/ MissingInputs(mapping, groups) # {}
  \/ LacksImages(mapping, groups)

\* the image selected for the role r in repeat i (0-based), d being what
\* random.choice gave (0: no directory or no image in the chosen folder)
SelectImage(r, i, d) ==
  IF input_mapping[r].policy = "folder"
    THEN IF d = 0 THEN NoPath ELSE <<"folder", d>>
  ELSE IF input_mapping[r].policy = "random"
    THEN IF input_groups[r] > 0 THEN <<r, d>> ELSE NoPath
  ELSE IF input_groups[r] > 0 THEN <<r, (i % input_groups[r]) + 1>> ELSE NoPath

\* image_paths of one repeat: the main image and one image per other role of
\* input_images
ImagePaths(rp, d) ==
  [r \in {MainRole} \cup InputImages(input_mapping) |->
     IF r = MainRole THEN <<MainRole, rp.img>> ELSE SelectImage(r, rp.i, d[r])]

\* valid_image_paths
ValidImagePaths(paths) ==
  [r \in {x \in DOMAIN paths : paths[x] # NoPath} |-> paths[r]]

\* every repeat going into the queue
KeepAll(valid) == TRUE

\* the repeat goes into the queue: len(valid_image_paths) == len(input_mapping)
Keep(valid) == Cardinality(DOMAIN valid) = Cardinality(DOMAIN input_mapping)

\* the repeats in the order of the two for loops: image img, repeat i of times
RECURSIVE Repeats(_, _)
Repeats(gt, k) ==
  IF k = 0 THEN <<>>
  ELSE Repeats(gt, k - 1) \o [x \in 1..gt[k] |-> [img |-> k, i |-> x - 1, times |-> gt[k]]]

\* task_queue after the first k repeats
RECURSIVE TaskQueue(_, _, _)
TaskQueue(reps, ds, k) ==
  IF k = 0 THEN <<>>
  ELSE LET valid == ValidImagePaths(ImagePaths(reps[k], ds[k]))
       IN TaskQueue(reps, ds, k - 1) \o
            (IF Keep(valid)
               THEN << [main |-> <<MainRole, reps[k].img>>, paths |-> valid,
                        gen |-> reps[k].i + 1, times |-> reps[k].times] >>
               ELSE <<>>)

\* what random.choice can give for the role r
Draws(r) ==
  IF r \notin InputImages(input_mapping) THEN {0}
  ELSE IF input_mapping[r].policy = "folder" THEN 0..MaxFolder
  ELSE IF input_mapping[r].policy = "random" /\ input_groups[r] > 0
    THEN 1..input_groups[r]
  ELSE {0}

QueueInit ==
  /\ entry = "queue"
  /\ NoPoll
  /\ ApiFresh
  /\ Fresh
  /\ input_mapping \in [Roles -> [required : {"True", "False", "unset"},
                                  policy : {"folder", "random", "sequential"}]]
  /\ input_mapping[MainRole].policy = "sequential"
  /\ input_groups \in [Roles -> 0..MaxScan]
  /\ image_count = input_groups[MainRole]
  /\ generations_per_style \in 0..MaxQueue
  /\ min_per_image \in 0..MaxQueueMin
  /\ max_per_image = MaxMaxPer
  /\ generation_times = <<>>
  /\ draws = <<>>
  /\ task_queue = <<>>
  /\ returned = "None"
  /\ job = [i \in Jobs |-> NewJob]
  /\ store = [i \in Jobs |-> NoRecord]
  /\ mpc = "none"
  /\ batch_size = 1

queueOther == <<entry, pollVars, quotaVars, input_mapping, input_groups, apiVars,
                poolVars, taskVars, checkVars, handVars, job, storeVars, mainVars>>

\* process_folder from the scan to the task queue
BuildQueue ==
  /\ returned = "None"
  /\ IF EarlyReturn(input_mapping, input_groups)
       THEN /\ returned' = "empty"
            /\ UNCHANGED <<generation_times, draws, task_queue>>
     ELSE IF MainRole \notin InputImages(input_mapping)
       THEN /\ returned' = "raised"
            /\ UNCHANGED <<generation_times, draws, task_queue>>
     ELSE \E indices \in Perms(1..image_count) :
            LET gt   == GenerationTimes(image_count, generations_per_style,
                                        min_per_image, max_per_image, indices)
                reps == Repeats(gt, image_count)
            IN \E ds \in [1..Len(reps) -> [Roles \ {MainRole} -> 0..(MaxScan + MaxFolder)]] :
                 /\ \A k \in 1..Len(reps) : \A r \in Roles \ {MainRole} : ds[k][r] \in Draws(r)
                 /\ generation_times' = gt
                 /\ draws' = ds
                 /\ task_queue' = TaskQueue(reps, ds, Len(reps))
                 /\ returned' = "queued"
  /\ UNCHANGED queueOther

QueueNext == BuildQueue

QueueSpec == QueueInit /\ [][QueueNext]_vars

\* the paths that exist: the scanned images and the images of a folder
ExistingPaths ==
  {p \in Roles \X (1..MaxScan) : p[2] <= input_groups[p[1]]}
     \cup {<<"folder", k>> : k \in 1..MaxFolder}

\* the candidate binding of the k-th repeat of the plan
Candidate(k) == ImagePaths(Repeats(generation_times, image_count)[k], draws[k])

\* some role of input_mapping has no image in the k-th repeat
Unbound(k) ==
  \E r \in Roles : r \notin DOMAIN Candidate(k) \/ Candidate(k)[r] = NoPath

\* C22: every entry of the task queue binds every role of input_mapping to
\* an existing image, and a repeat with an unbound role has no entry.
C22_QueueBindsAllRoles ==
  returned = "queued" =>
     /\ \A k \in 1..Len(task_queue) :
          /\ DOMAIN task_queue[k].paths = Roles
          /\ \A r \in Roles : task_queue[k].paths[r] \in ExistingPaths
     /\ \A k \in 1..Len(draws) :
          Unbound(k) =>
             ~ \E e \in 1..Len(task_queue) :
                  /\ task_queue[e].main[2] = Repeats(generation_times, image_count)[k].img
                  /\ task_queue[e].gen = Repeats(generation_times, image_count)[k].i + 1

\* C22 witness: a queue built from a plan of which one repeat was dropped
\* for an unbound role and another was kept.
C22_Witness ==
  /\ returned = "queued"
  /\ task_queue # <<>>
  /\ Len(task_queue) < Len(draws)
  /\ \E k \in 1..Len(draws) : Unbound(k)

\* C23: when a role that is required (marked so, or not marked at all) has
\* no scanned image, process_folder returns the empty list before planning:
\* no plan, no queue entry, no request.
C23_MissingRequiredInput ==
  (returned # "None" /\ \E r \in Roles :
       Required(input_mapping[r], TRUE) /\ input_groups[r] = 0) =>
     /\ returned = "empty"
     /\ generation_times = <<>>
     /\ task_queue = <<>>
     /\ requests = {}

\* C23 witness: the other role is not marked, hence required, and has no image while the main
\* role has, and process_folder returned the empty list.
C23_Witness ==
  /\ returned = "empty"
  /\ input_mapping["model"].required = "unset"
  /\ input_groups["model"] = 0
  /\ input_groups[MainRole] > 0
  /\ generations_per_style > 0

\* -----------------------------------------------------------------
\* the prompt requests sent for the task_queue entry t
Submits(t) == {q \in requests : q.job = t /\ q.kind = "prompt"}

\* C24: in a run of process_folder every task_queue entry causes at most
\* one submit request, also when that request failed.
C24_OneSubmitPerJob ==
  entry = "run" =>
     \A t \in Jobs :
        /\ job[t].posts <= 1
        /\ Cardinality(Submits(t)) <= 1
        /\ (job[t].pc = "done" /\ job[t].resp \in {"error", "noid"}) =>
              (job[t].posts = 1 /\ job[t].pid = 0)

\* C24 witness: the run is over and a job whose submit failed was sent once.
C24_Witness ==
  /\ entry = "run"
  /\ mpc = "end"
  /\ \E t \in Jobs :
       /\ job[t].resp = "error"
       /\ job[t].posts = 1
       /\ job[t].pc = "done"

\* the task_queue entries admitted so far that were assigned the endpoint s
AssignedTo(s) == {t \in 1..task_idx : job[t].srv = s}

\* C26: the task_queue entry at position k (0-based) goes to the endpoint at
\* index k mod n of the list made of the healthy set before admission; only
\* healthy endpoints are used and their job counts differ by at most 1.
C26_PositionalAssignment ==
  (entry = "run" /\ task_idx > 0) =>
     LET n == Len(avail_list)
     IN /\ Range(avail_list) = available_servers
        /\ n = Cardinality(available_servers)
        /\ \A t \in 1..task_idx :
             /\ job[t].srv = avail_list[((t - 1) % n) + 1]
             /\ job[t].srv \in available_servers
             /\ \A q \in Submits(t) : q.srv = job[t].srv
        /\ \A a, b \in available_servers :
             Cardinality(AssignedTo(a)) - Cardinality(AssignedTo(b)) \in {-1, 0, 1}

\* C26 witness: three jobs admitted over two healthy endpoints, the third
\* back on the endpoint of the first, each submitted where it was assigned.
C26_Witness ==
  /\ entry = "run"
  /\ task_idx = 3
  /\ Len(avail_list) = 2
  /\ job[1].srv = job[3].srv
  /\ job[1].srv # job[2].srv
  /\ \A t \in 1..3 : Submits(t) # {}

\* the number of places of the list q that hold x
Occurrences(q, x) == Cardinality({k \in 1..Len(q) : q[k] = x})

\* C27: when process_folder returns, the progress counter equals the number
\* of tasks and the returned list holds every output path of every admitted
\* job exactly once.
C27_CollectedOnce ==
  (entry = "run" /\ mpc = "end") =>
     /\ processed_count = total_tasks
     /\ \A t \in 1..total_tasks :
          \A x \in Range(job[t].result) : Occurrences(all_results, x) = 1

\* C28: a call of ensure_initialized made after the initialization task
\* ended with no healthy endpoint returns False at once and starts no
\* health check.
C28_StickyFailure ==
  [][\A i \in Jobs :
       ( /\ initialization_task = "failed"
         /\ job'[i].op = "ensure_initialized"
         /\ job[i].pc \in {"none", "done"}
         /\ job'[i] # job[i] ) =>
            /\ job'[i].pc = "done"
            /\ job'[i].status = "False"
            /\ chk' = chk
            /\ checkedBy' = checkedBy]_vars

\* ------------------------------------------ BatchProcessor.process_batch
\* process_batch is called on a fresh BatchProcessor: _check_servers first
BatchInit ==
  /\ entry = "process_batch"
  /\ NoPoll
  /\ ApiFresh
  /\ NoPlan
  /\ NoQueue
  /\ Fresh
  /\ job = [i \in Jobs |-> NewJob]
  /\ store = [i \in Jobs |-> NoRecord]
  /\ mpc = "run"
  /\ batch_size \in 1..MaxBatch

\* process_batch after _check_servers returned True: the for loop prepares
\* the payload of each image and creates its task, all of them before the
\* first await (m < k: preparing image m + 1 raised, [] is returned and the
\* tasks created so far go on); then as_completed is called with the tasks
ProcessBatch ==
  /\ entry = "process_batch"
  /\ mpc = "process_folder"
  /\ \E k \in 0..MaxBatchImages, q \in Perms(available_servers) :
       \E m \in 0..k :
         /\ total_tasks' = k
         /\ avail_list' = q
         /\ task_idx' = m
         /\ job' = [t \in Jobs |->
                      IF t \in 1..m
                        THEN [NewJob EXCEPT !.op = "image", !.pc = "created",
                                            !.srv = ServerOf(t, q)]
                        ELSE job[t]]
         /\ fs' = IF m = k THEN 1..m ELSE {}
         /\ mpc' = IF fs' = {} THEN "end" ELSE "drain"
  /\ UNCHANGED <<progVars, poolVars, taskVars, checkVars, handVars, storeVars,
                 batch_size, active_tasks, all_results, processed_count>>

\* a task of process_batch starts: _process_single_image sends the POST
ProcessSingleImage(t) ==
  /\ entry = "process_batch"
  /\ job[t].pc = "created"
  /\ Commit(t, Post(t, Ctx(t), job[t].srv))
  /\ UNCHANGED otherVars

\* as_completed yields the next finished task of process_batch; after the
\* last one all_paths is returned
ProcessBatchDrain ==
  /\ entry = "process_batch"
  /\ mpc = "drain"
  /\ \E t \in fs :
       /\ job[t].pc = "done"
       /\ all_results' = all_results \o job[t].result
       /\ processed_count' = processed_count + 1
       /\ fs' = fs \ {t}
       /\ mpc' = IF fs' = {} THEN "end" ELSE "drain"
  /\ UNCHANGED <<progVars, poolVars, taskVars, checkVars, handVars, job, storeVars,
                 planVars, task_idx, active_tasks>>

BatchNext ==
  \/ \E o \in Owners, s \in Servers : CheckResponse(o, s)
  \/ InitTaskStart
  \/ InitTaskFinish
  \/ \E i \in Jobs : SubmitResponse(i)
  \/ \E i \in Jobs : HistoryResponse(i)
  \/ \E i \in Jobs : SleepDone(i)
  \/ \E i \in Jobs : ImageResponse(i)
  \/ RunCheckServers
  \/ RunEnsureResume
  \/ RunEnsureTimeout
  \/ ProcessBatch
  \/ ProcessBatchDrain
  \/ \E t \in Jobs : ProcessSingleImage(t)

BatchSpec == BatchInit /\ [][BatchNext]_vars

\* C25: process_batch called with k images and batch_size b < k never has
\* more than b jobs (tasks created and not completed) in flight at the same
\* time.
C25_BatchBound ==
  (entry = "process_batch" /\ batch_size < total_tasks) =>
     Cardinality(InFlight) <= batch_size

\* ------------------------------------------------ ServerManager (API)
apiOther == <<entry, pollVars, quotaVars, generation_times, queueVars, poolVars,
              taskVars, checkVars, handVars, job, storeVars, mainVars>>

\* a method of the ServerManager is called: what was called and returned
Call(op, s, t, ret) ==
  [op |-> op, name |-> s, task |-> t, ret |-> ret, seq |-> 1 - called.seq]

\* assign_task accepting a registered, enabled server in any status
CanAssignAnyStatus(S, s) ==
  /\ S[s] # NoServer
  /\ S[s].enabled
  /\ S[s].current_task_id = 0

\* the tests of assign_task: the server is registered, enabled, ONLINE and
\* has no current task
CanAssign(S, s) ==
  /\ S[s] # NoServer
  /\ S[s].enabled
  /\ S[s].status = "ONLINE"
  /\ S[s].current_task_id = 0

\* assign_task(server_name, task_id) on the registry S
assign_task(S, s, t) ==
  IF CanAssign(S, s)
    THEN [S EXCEPT ![s].current_task_id = t, ![s].status = "BUSY"]
    ELSE S

\* release_task(server_name) on the registry S
release_task(S, s) ==
  IF S[s] # NoServer
    THEN [S EXCEPT ![s].current_task_id = 0, ![s].status = "ONLINE"]
    ELSE S

\* ServerManager.check_server_status resumed by the answer r to GET {url}/health
manager_check_server_status(S, s, r) ==
  IF r = "200"
    THEN IF S[s].current_task_id = 0 THEN [S EXCEPT ![s].status = "ONLINE"] ELSE S
    ELSE [S EXCEPT ![s].status = "ERROR"]

\* register_server of a name not registered yet; the configuration comes
\* with no current task
RegisterServer(s) ==
  /\ entry \in {"server_manager", "batch_process"}
  /\ servers[s] = NoServer
  /\ \E e \in BOOLEAN, st \in Statuses :
       servers' = [servers EXCEPT ![s] =
                     [enabled |-> e, status |-> st, current_task_id |-> 0]]
  /\ called' = Call("register_server", s, 0, FALSE)
  /\ UNCHANGED <<checking, batch_requests, apiOther>>

\* check_all_servers reaches an enabled server: GET {url}/health is sent
CheckServerStatus(s) ==
  /\ entry \in {"server_manager", "batch_process"}
  /\ checking = 0
  /\ servers[s] # NoServer
  /\ servers[s].enabled
  /\ checking' = s
  /\ UNCHANGED <<servers, called, batch_requests, apiOther>>

\* the answer to GET {url}/health (or an exception) arrives
CheckServerResponse ==
  /\ checking # 0
  /\ \E r \in {"200", "other", "Exception"} :
       servers' = manager_check_server_status(servers, checking, r)
  /\ checking' = 0
  /\ UNCHANGED <<called, batch_requests, apiOther>>

\* a caller of the ServerManager calls assign_task(s, t)
AssignTask(s, t) ==
  /\ entry = "server_manager"
  /\ called' = Call("assign_task", s, t, CanAssign(servers, s))
  /\ servers' = assign_task(servers, s, t)
  /\ UNCHANGED <<checking, batch_requests, apiOther>>

\* a caller of the ServerManager calls release_task(s)
ReleaseTask(s) ==
  /\ entry = "server_manager"
  /\ called' = Call("release_task", s, 0, FALSE)
  /\ servers' = release_task(servers, s)
  /\ UNCHANGED <<checking, batch_requests, apiOther>>

ManagerInit ==
  /\ entry = "server_manager"
  /\ NoPoll
  /\ NoPlan
  /\ NoQueue
  /\ ApiFresh
  /\ Fresh
  /\ job = [i \in Jobs |-> NewJob]
  /\ store = [i \in Jobs |-> NoRecord]
  /\ mpc = "none"
  /\ batch_size = 1

ManagerNext ==
  \/ \E s \in Names : RegisterServer(s)
  \/ \E s \in Names : CheckServerStatus(s)
  \/ CheckServerResponse
  \/ \E s \in Names, t \in Requests : AssignTask(s, t)
  \/ \E s \in Names : ReleaseTask(s)

ManagerSpec == ManagerInit /\ [][ManagerNext]_vars

\* the step is a call of the method op on the server s
Calls(op, s) ==
  /\ called'.seq # called.seq
  /\ called'.op = op
  /\ called'.name = s

\* C29: assign_task succeeds only for a registered server that is enabled,
\* ONLINE and without a current task, and then sets current_task_id and the
\* status BUSY; while a server holds a task every assign_task on it returns
\* False and changes nothing, and only release_task ends the task, whatever
\* health checks come in between.
C29_OneTaskAtATime ==
  [][\A s \in Names :
       LET a == servers[s]
           b == servers'[s]
       IN /\ (Calls("assign_task", s) /\ called'.ret) =>
                /\ a # NoServer
                /\ a.enabled
                /\ a.status = "ONLINE"
                /\ a.current_task_id = 0
                /\ b = [a EXCEPT !.current_task_id = called'.task,
                                 !.status = "BUSY"]
          /\ (Calls("assign_task", s) /\ a.current_task_id # 0) => ~called'.ret
          /\ (Calls("assign_task", s) /\ ~called'.ret) => b = a
          /\ (a.current_task_id # 0 /\ b.current_task_id # a.current_task_id) =>
                /\ Calls("release_task", s)
                /\ b.current_task_id = 0]_vars

\* C29 witness: a server holding a task, its health check under way, has
\* just refused the assignment of another task.
C29_Witness ==
  /\ entry = "server_manager"
  /\ called.op = "assign_task"
  /\ ~called.ret
  /\ servers[called.name].enabled
  /\ servers[called.name].current_task_id \notin {0, called.task}
  /\ checking = called.name

\* ------------------------------------------- POST /batch/process (API)
\* the checks batch_process makes on the selected server before assigning
Selectable(S, s) ==
  /\ S[s] # NoServer
  /\ S[s].enabled
  /\ S[s].status = "ONLINE"
  /\ S[s].current_task_id = 0

\* The handler of request r naming the server s, from its start to its
\* response (it has no await).  f = "workflow": the workflow configuration
\* is not found; f = "config": ServiceConfig(...), BatchProcessor(config) or
\* task_manager.create_task raises.  Every exception ends in the handler's
\* except clause, which answers 500; otherwise run_processor is scheduled.
BatchProcess(r, s) ==
  /\ entry = "batch_process"
  /\ batch_requests[r].pc = "none"
  /\ \E f \in {"none", "workflow", "config"} :
       IF f = "workflow" \/ ~Selectable(servers, s) \/ ~CanAssign(servers, s)
         THEN /\ batch_requests' = [batch_requests EXCEPT ![r] =
                   [pc |-> "raised", srv |-> s, assigned |-> FALSE,
                    status |-> "None"]]
              /\ IF f # "workflow" /\ Selectable(servers, s)
                   THEN called' = Call("assign_task", s, r, FALSE)
                   ELSE UNCHANGED called
              /\ UNCHANGED servers
         ELSE /\ servers' = assign_task(servers, s, r)
              /\ called' = Call("assign_task", s, r, TRUE)
              /\ batch_requests' = [batch_requests EXCEPT ![r] =
                   IF f = "config"
                     THEN [pc |-> "raised", srv |-> s, assigned |-> TRUE,
                           status |-> "None"]
                     ELSE [pc |-> "scheduled", srv |-> s, assigned |-> TRUE,
                           status |-> "PENDING"]]
  /\ UNCHANGED <<checking, apiOther>>

\* the background task run_processor starts and awaits processor.run()
RunProcessor(r) ==
  /\ batch_requests[r].pc = "scheduled"
  /\ batch_requests' = [batch_requests EXCEPT ![r].pc = "running",
                                              ![r].status = "RUNNING"]
  /\ UNCHANGED <<servers, checking, called, apiOther>>

\* processor.run() returned or raised: the task is marked, the finally
\* clause releases the server and awaits processor.dispatcher.close()
RunProcessorDone(r) ==
  /\ batch_requests[r].pc = "running"
  /\ \E o \in {"COMPLETED", "FAILED"} :
       batch_requests' = [batch_requests EXCEPT ![r].pc = "closing",
                                                ![r].status = o]
  /\ servers' = release_task(servers, batch_requests[r].srv)
  /\ called' = Call("release_task", batch_requests[r].srv, 0, FALSE)
  /\ UNCHANGED <<checking, apiOther>>

\* processor.dispatcher.close() returned: run_processor is over
RunProcessorClosed(r) ==
  /\ batch_requests[r].pc = "closing"
  /\ batch_requests' = [batch_requests EXCEPT ![r].pc = "over"]
  /\ UNCHANGED <<servers, checking, called, apiOther>>

ApiInit ==
  /\ entry = "batch_process"
  /\ NoPoll
  /\ NoPlan
  /\ NoQueue
  /\ ApiFresh
  /\ Fresh
  /\ job = [i \in Jobs |-> NewJob]
  /\ store = [i \in Jobs |-> NoRecord]
  /\ mpc = "none"
  /\ batch_size = 1

ApiNext ==
  \/ \E s \in Names : RegisterServer(s)
  \/ \E s \in Names : CheckServerStatus(s)
  \/ CheckServerResponse
  \/ \E r \in Requests, s \in Names : BatchProcess(r, s)
  \/ \E r \in Requests : RunProcessor(r)
  \/ \E r \in Requests : RunProcessorDone(r)
  \/ \E r \in Requests : RunProcessorClosed(r)

ApiSpec == ApiInit /\ [][ApiNext]_vars

\* the request r has nothing left to run: it was answered with an error, or
\* its background task is over
RequestOver(r) == batch_requests[r].pc \in {"raised", "over"}

\* C30: a server that batch_process assigned a task to is released on every
\* path of the request: once the request has nothing left to run (the run
\* succeeded, the run failed, or the request failed after the assignment),
\* the server no longer holds the request's task.
C30_AssignedReleased ==
  \A r \in Requests :
    (batch_requests[r].assigned /\ RequestOver(r)) =>
       servers[batch_requests[r].srv].current_task_id # r

====
